---- MODULE Spec2Model ----
(***************************************************************************)
(* Model of useStateWithHistory (src/CustomHook.js, lines 119-172): a      *)
(* React hook keeping a bounded, navigable history of committed values.    *)
(*                                                                         *)
(* The hook owns two mutable refs (historyRef, pointerRef) that its        *)
(* callbacks update immediately, and one React state cell (value) that     *)
(* only changes when React re-renders the component.  The model keeps      *)
(* both, plus the React update that setValue has scheduled but that has    *)
(* not been rendered yet.                                                  *)
(*                                                                         *)
(* JavaScript indices are 0-based: pointer is the JS index, and entry i of *)
(* the JS array is history[i + 1] of the TLA+ sequence.                    *)
(***************************************************************************)
EXTENDS Integers, Sequences, FiniteSets, TLC

\* ---------------------------------------------------------------- bounds
\* Largest capacity option a component passes to the hook.
MaxCapacity == 3
\* Number of distinct primitive values (numbers 0 .. NumPrims-1) committed.
NumPrims == 1
\* Number of distinct object allocations committed; all have equal contents.
NumObjs == 2

\* ---------------------------------------------------------------- values
\* A JS primitive: two primitives are === exactly when they are the same.
Prim(n) == [kind |-> "prim", id |-> n]
\* A JS object reference: === compares the reference (id), not the contents.
\* Every object of the model is a separate allocation of the same literal.
Obj(n) == [kind |-> "obj", id |-> n]
\* What reading an array out of range gives (historyRef.current[-1]).
Undefined == [kind |-> "undef", id |-> 0]
\* An updater function passed to set (typeof v === "function").
Fn(name) == [kind |-> "fn", id |-> name]

Values == {Prim(n) : n \in 0 .. NumPrims - 1} \cup {Obj(n) : n \in 1 .. NumObjs}
Updaters == {Fn("next"), Fn("same")}
\* Everything a caller passes to set.
SetInputs == Values \cup Updaters

\* The === / !== of line 127: identity for objects, value for primitives.
StrictEq(a, b) == a = b

\* Deep (value) equality as lodash isEqual computes it: objects of the model
\* all have the same contents, primitives are equal when they are the same.
IsEqual(a, b) ==
  /\ a.kind = b.kind
  /\ (a.kind = "prim" => a.id = b.id)

\* The updater functions callers pass: c => next(c) steps through the
\* values in a fixed cyclic order, c => c returns its argument.
ApplyFn(f, x) ==
  IF f.id = "same" THEN x
  ELSE IF x.kind = "prim"
       THEN (IF x.id + 1 < NumPrims THEN Prim(x.id + 1) ELSE Obj(1))
       ELSE IF x.kind = "obj"
            THEN (IF x.id < NumObjs THEN Obj(x.id + 1) ELSE Prim(0))
            ELSE Prim(0)

\* ----------------------------------------------------------------- state
VARIABLES
  capacity,  \* the capacity option (destructured at line 119)
  history,   \* historyRef.current
  pointer,   \* pointerRef.current (JS index)
  value,     \* the React state the last render returned (line 120)
  pending,   \* <<x>> when setValue(x) is scheduled and not rendered, else <<>>
  renderedPointer, \* the pointer the last render returned (line 166)
  last       \* the last call made and the state it was made in

vars == <<capacity, history, pointer, value, pending, renderedPointer, last>>

\* ------------------------------------------------------- array operations
\* historyRef.current[i]
At(h, i) == IF i \in 0 .. Len(h) - 1 THEN h[i + 1] ELSE Undefined

\* Array.prototype.splice(start) for start >= 0: keep the first start entries.
Splice(h, start) == SubSeq(h, 1, start)

\* pop() in place of shift(): drop the newest entry.
ShiftFromEnd(h) == IF h = <<>> THEN h ELSE SubSeq(h, 1, Len(h) - 1)

\* Array.prototype.shift(): drop entry 0 (an empty array stays empty).
Shift(h) == IF h = <<>> THEN h ELSE Tail(h)

\* The eviction loop with its bound off by one: while (length > capacity + 1).
RECURSIVE EvictOffByOne(_, _)
EvictOffByOne(h, cap) ==
  IF Len(h) > cap + 1 THEN EvictOffByOne(Shift(h), cap) ELSE h

\* The eviction loop of lines 133-135.
RECURSIVE Evict(_, _)
Evict(h, cap) == IF Len(h) > cap THEN Evict(Shift(h), cap) ELSE h

\* A commit that forgets to drop the redo branch.
KeepRedoBranch(h, p) == h

\* splice(pointer) in place of splice(pointer + 1): the entry at the pointer
\* goes too.
TruncateAtPointer(h, p) == IF p < Len(h) - 1 THEN Splice(h, p) ELSE h

\* Lines 128-130: drop the redo branch when the pointer is not at the end.
Truncate(h, p) == IF p < Len(h) - 1 THEN Splice(h, p + 1) ELSE h

\* Line 131
Push(h, x) == Append(h, x)

\* The comparison made against the newest entry instead of the one at the
\* pointer.
DiffersFromNewest(h, p, r) == ~StrictEq(At(h, Len(h) - 1), r)

\* The comparison made against every entry of the log (global deduplication).
DiffersFromAll(h, p, r) == \A i \in 0 .. Len(h) - 1 : ~StrictEq(At(h, i), r)

\* The comparison left out: every set commits.
DiffersAlways(h, p, r) == TRUE

\* Line 127: does set(resolvedValue) touch the refs?
Differs(h, p, r) == ~StrictEq(At(h, p), r)

\* Lines 127-137: the refs after set resolved its argument to r.
CommitRefs(h, p, r, cap) ==
  IF Differs(h, p, r)
  THEN LET kept == Evict(Push(Truncate(h, p), r), cap)
       IN  [history |-> kept, pointer |-> Len(kept) - 1]
  ELSE [history |-> h, pointer |-> p]

\* Line 126
Resolve(v, current) == IF v.kind = "fn" THEN ApplyFn(v, current) ELSE v

\* -------------------------------------------------------- React's useState
\* setValue(x): React keeps the last scheduled state; scheduling the state
\* that is already rendered, with nothing else scheduled, is dropped.
SetValue(pend, cur, x) == IF pend = <<>> /\ x = cur THEN <<>> ELSE <<x>>

\* The state React holds for the cell: the scheduled one when there is one.
StateValue(pend, cur) == IF pend = <<>> THEN cur ELSE pend[1]

\* Where a run of back()/forward() calls started: the cursor and the state
\* React held then.  set and go end the run, a render leaves it as it is.
Origin(name) ==
  IF name \in {"back", "forward"}
  THEN (IF last.origin = <<>>
        THEN <<[pointer |-> pointer, current |-> StateValue(pending, value)]>>
        ELSE last.origin)
  ELSE IF name = "render" THEN last.origin ELSE <<>>

\* The record of a call: its name, its resolved argument, and the state before
\* (input is what set was given, before line 126 resolved it).
Call(name, arg) ==
  [op |-> name, arg |-> arg, input |-> arg, history |-> history,
   pointer |-> pointer, value |-> value, pending |-> pending,
   origin |-> Origin(name)]

\* ------------------------------------------------------------------- Init
\* useStateWithHistory(defaultValue, { capacity }): lines 119-122.  The hook
\* accepts any capacity; a negative one makes the loop of lines 133-135 spin
\* forever on the first commit, so the model covers 0 .. MaxCapacity.
Init ==
  /\ capacity \in 0 .. MaxCapacity
  /\ value \in Values
  /\ history = <<value>>
  /\ pointer = 0
  /\ pending = <<>>
  /\ renderedPointer = 0
  /\ last = [op |-> "create", arg |-> value, input |-> value,
             history |-> <<value>>, pointer |-> 0, value |-> value,
             pending |-> <<>>, origin |-> <<>>]

\* The default of the destructuring at line 119: { capacity = 10 } = {}.
DefaultCapacity == 10

\* The default taken for any missing option.
CapacityOptionOffByOne(opts) ==
  IF opts.given THEN opts.capacity ELSE DefaultCapacity - 1

\* Line 119: the capacity the hook works with, for the options it was given.
CapacityOption(opts) == IF opts.given THEN opts.capacity ELSE DefaultCapacity

\* useStateWithHistory(defaultValue): no options given.
NoOptions == [given |-> FALSE, capacity |-> 0]

\* The values committed on a container created without options.
DefaultValues == {Prim(0), Obj(1)}

DefaultInit ==
  /\ capacity = CapacityOption(NoOptions)
  /\ value \in DefaultValues
  /\ history = <<value>>
  /\ pointer = 0
  /\ pending = <<>>
  /\ renderedPointer = 0
  /\ last = [op |-> "create", arg |-> value, input |-> value,
             history |-> <<value>>, pointer |-> 0, value |-> value,
             pending |-> <<>>, origin |-> <<>>]

\* The values of the end-to-end scenario: 0, 1, 2, 3 and 9.
ScenarioValues == {Prim(0), Prim(1), Prim(2), Prim(3), Prim(9)}

\* useStateWithHistory(0, { capacity: 3 })
ScenarioInit ==
  /\ capacity = CapacityOption([given |-> TRUE, capacity |-> 3])
  /\ value = Prim(0)
  /\ history = <<value>>
  /\ pointer = 0
  /\ pending = <<>>
  /\ renderedPointer = 0
  /\ last = [op |-> "create", arg |-> value, input |-> value,
             history |-> <<value>>, pointer |-> 0, value |-> value,
             pending |-> <<>>, origin |-> <<>>]

\* ---------------------------------------------------------------- actions
\* set(v): lines 124-141.  The callback closes over the rendered value.
Set(v) ==
  LET r == Resolve(v, value)
      refs == CommitRefs(history, pointer, r, capacity)
  IN  /\ history' = refs.history
      /\ pointer' = refs.pointer
      /\ pending' = SetValue(pending, value, r)
      /\ last' = [Call("set", r) EXCEPT !.input = v]
      /\ UNCHANGED <<capacity, value, renderedPointer>>

\* back() with its guard off by one: if (pointerRef.current < 0) return.
BackOffByOne ==
  /\ IF pointer < 0
     THEN UNCHANGED <<pointer, pending>>
     ELSE /\ pointer' = pointer - 1
          /\ pending' = SetValue(pending, value, At(history, pointer - 1))
  /\ last' = Call("back", Undefined)
  /\ UNCHANGED <<capacity, history, value, renderedPointer>>

\* back() implemented by dropping the newest entry instead of moving in the log.
BackDroppingEntry ==
  /\ IF pointer <= 0
     THEN UNCHANGED <<history, pointer, pending>>
     ELSE /\ history' = SubSeq(history, 1, Len(history) - 1)
          /\ pointer' = pointer - 1
          /\ pending' = SetValue(pending, value, At(history, pointer - 1))
  /\ last' = Call("back", Undefined)
  /\ UNCHANGED <<capacity, value, renderedPointer>>

\* back(): lines 143-147
Back ==
  /\ IF pointer <= 0
     THEN UNCHANGED <<pointer, pending>>
     ELSE /\ pointer' = pointer - 1
          /\ pending' = SetValue(pending, value, At(history, pointer - 1))
  /\ last' = Call("back", Undefined)
  /\ UNCHANGED <<capacity, history, value, renderedPointer>>

\* forward() with its guard off by one: pointerRef.current > length - 1.
ForwardOffByOne ==
  /\ IF pointer > Len(history) - 1
     THEN UNCHANGED <<pointer, pending>>
     ELSE /\ pointer' = pointer + 1
          /\ pending' = SetValue(pending, value, At(history, pointer + 1))
  /\ last' = Call("forward", Undefined)
  /\ UNCHANGED <<capacity, history, value, renderedPointer>>

\* forward() reading the entry before moving the pointer.
ForwardStaleRead ==
  /\ IF pointer >= Len(history) - 1
     THEN UNCHANGED <<pointer, pending>>
     ELSE /\ pointer' = pointer + 1
          /\ pending' = SetValue(pending, value, At(history, pointer))
  /\ last' = Call("forward", Undefined)
  /\ UNCHANGED <<capacity, history, value, renderedPointer>>

\* forward(): lines 149-153
Forward ==
  /\ IF pointer >= Len(history) - 1
     THEN UNCHANGED <<pointer, pending>>
     ELSE /\ pointer' = pointer + 1
          /\ pending' = SetValue(pending, value, At(history, pointer + 1))
  /\ last' = Call("forward", Undefined)
  /\ UNCHANGED <<capacity, history, value, renderedPointer>>

\* go(index) with its upper guard off by one: index > history.length.
GoOffByOne(index) ==
  /\ IF index < 0 \/ index > Len(history)
     THEN UNCHANGED <<pointer, pending>>
     ELSE /\ pointer' = index
          /\ pending' = SetValue(pending, value, At(history, index))
  /\ last' = Call("go", Prim(index))
  /\ UNCHANGED <<capacity, history, value, renderedPointer>>

\* go(index): lines 155-159
Go(index) ==
  /\ IF index < 0 \/ index > Len(history) - 1
     THEN UNCHANGED <<pointer, pending>>
     ELSE /\ pointer' = index
          /\ pending' = SetValue(pending, value, At(history, index))
  /\ last' = Call("go", Prim(index))
  /\ UNCHANGED <<capacity, history, value, renderedPointer>>

\* React re-renders the component: the scheduled state becomes the value the
\* hook returns, together with the pointer read at line 166.  A scheduled
\* state equal to the rendered one makes React bail out of the render.
Render ==
  /\ pending # <<>>
  /\ pending' = <<>>
  /\ IF pending[1] = value
     THEN UNCHANGED <<value, renderedPointer>>
     ELSE /\ value' = pending[1]
          /\ renderedPointer' = pointer
  /\ last' = Call("render", Undefined)
  /\ UNCHANGED <<capacity, history, pointer>>

Next ==
  \/ \E v \in SetInputs : Set(v)
  \/ Back
  \/ Forward
  \/ \E index \in -1 .. Len(history) : Go(index)
  \/ Render

Spec == Init /\ [][Next]_vars

\* A container created without options, used with two values.
DefaultNext ==
  \/ \E v \in DefaultValues : Set(v)
  \/ Back
  \/ Forward
  \/ \E index \in -1 .. Len(history) : Go(index)
  \/ Render

DefaultSpec == DefaultInit /\ [][DefaultNext]_vars

\* A container created as in the end-to-end scenario, used with its values.
ScenarioNext ==
  \/ \E v \in ScenarioValues : Set(v)
  \/ Back
  \/ Forward
  \/ \E index \in -1 .. Len(history) : Go(index)
  \/ Render

ScenarioSpec == ScenarioInit /\ [][ScenarioNext]_vars

\* ------------------------------------------------------------- properties
\* The array the commit truncates, pushes onto and then evicts from.
Pushed == Push(Truncate(last.history, last.pointer), last.arg)

\* The last call was a set whose resolved value is not === the entry that was
\* at the pointer.
CommittedNew ==
  /\ last.op = "set"
  /\ last.arg # At(last.history, last.pointer)

\* s is what remains of t after dropping entries from the front.
IsSuffix(s, t) ==
  /\ Len(s) <= Len(t)
  /\ s = SubSeq(t, Len(t) - Len(s) + 1, Len(t))

\* C1: with a capacity of at least 1, the log never holds more than capacity
\* entries, whatever calls were made.
CapacityInvariant == capacity >= 1 => Len(history) <= capacity

\* A commit made on a full log, at its end, evicted and left the log full.
CapacityWitness ==
  /\ capacity >= 1
  /\ CommittedNew
  /\ Len(last.history) = capacity
  /\ last.pointer = capacity - 1
  /\ Len(history) = capacity

\* C2: in every reachable state the log is non-empty and the cursor indexes
\* one of its entries.
CursorValidity ==
  /\ Len(history) >= 1
  /\ pointer \in 0 .. Len(history) - 1

\* C3: the value the consumer reads from the hook is always the log entry at
\* the cursor.
CurrentIsLogAtCursor == value = At(history, pointer)

\* C4: a commit of a value different from the entry at a cursor k that is not
\* the last index leaves (a suffix of) log[0..k] followed by the value, the
\* cursor on that value, and none of the entries formerly after k.
BranchTruncation ==
  (CommittedNew /\ last.pointer < Len(last.history) - 1) =>
    /\ IsSuffix(history, Append(SubSeq(last.history, 1, last.pointer + 1), last.arg))
    /\ history # <<>>
    /\ Len(history) <= last.pointer + 2
    /\ pointer = Len(history) - 1

\* A commit made after navigating back, that dropped at least one redo entry.
BranchTruncationWitness ==
  /\ CommittedNew
  /\ last.pointer >= 0
  /\ last.pointer < Len(last.history) - 1
  /\ history = Append(SubSeq(last.history, 1, last.pointer + 1), last.arg)

\* C5: when a commit makes the log exceed capacity, entries are removed from
\* the front only and the committed value is kept as the last entry.
EvictionOrder ==
  (CommittedNew /\ Len(Pushed) > capacity) =>
    /\ IsSuffix(history, Pushed)
    /\ history # <<>>
    /\ history[Len(history)] = last.arg

\* C6: after a commit that changed the log, the cursor is the last index and
\* the entry there is the committed value.
PostCommitPosition ==
  (last.op = "set" /\ history # last.history) =>
    /\ pointer = Len(history) - 1
    /\ At(history, pointer) = last.arg

\* C7, as claimed: committing a value equal by value (deep equality) to the
\* entry at the cursor changes neither the log nor the cursor.
DuplicateCommitByValue ==
  (last.op = "set" /\ IsEqual(last.arg, At(last.history, last.pointer))) =>
    /\ history = last.history
    /\ pointer = last.pointer

\* C7, amended: committing a value identical (===) to the entry at the cursor
\* changes neither the log nor the cursor.
DuplicateCommitByIdentity ==
  (last.op = "set" /\ StrictEq(last.arg, At(last.history, last.pointer))) =>
    /\ history = last.history
    /\ pointer = last.pointer

\* The entry at the cursor was committed again while redo entries existed.
DuplicateCommitWitness ==
  /\ last.op = "set"
  /\ last.pointer >= 0
  /\ last.pointer < Len(last.history) - 1
  /\ StrictEq(last.arg, At(last.history, last.pointer))
  /\ history = last.history

\* C8: nothing is ever executed on a container whose capacity is below 1
\* (construction with such a capacity fails and yields no container).
NoOperationBelowCapacityOne == capacity < 1 => last.op = "create"

\* C9: back() at cursor 0 and forward() at the last index leave the log, the
\* cursor and the visible value as they were.
BoundaryNavigationNoOp ==
  (\/ last.op = "back" /\ last.pointer = 0
   \/ last.op = "forward" /\ last.pointer = Len(last.history) - 1) =>
    /\ history = last.history
    /\ pointer = last.pointer
    /\ value = last.value
    /\ pending = last.pending

\* back() was called at cursor 0 of a log that has redo entries.
BoundaryNavigationWitness ==
  /\ last.op = "back"
  /\ last.pointer = 0
  /\ Len(last.history) >= 2
  /\ pointer = 0

\* C10: go(i) outside [0, len(log) - 1] changes nothing; go(k) inside it sets
\* the cursor to k and the current value to log[k]; the log is unchanged.
GoToBounds ==
  last.op = "go" =>
    /\ history = last.history
    /\ IF last.arg.id < 0 \/ last.arg.id > Len(last.history) - 1
       THEN /\ pointer = last.pointer
            /\ value = last.value
            /\ pending = last.pending
       ELSE /\ pointer = last.arg.id
            /\ StateValue(pending, value) = At(last.history, last.arg.id)

\* go(k) moved the cursor to another entry holding another value.
GoToWitness ==
  /\ last.op = "go"
  /\ last.arg.id \in 0 .. Len(last.history) - 1
  /\ last.arg.id # last.pointer
  /\ pointer = last.arg.id
  /\ At(history, pointer) # At(last.history, last.pointer)
  /\ pending = <<At(history, pointer)>>

\* C11: after a call that changed state, the snapshot the consumer observes
\* (visible value, history, cursor) comes to equal the container's log and
\* cursor: once React has no render left to do, the rendered value is the
\* entry at the cursor and the rendered pointer is the cursor.  (The history
\* the hook returns is the live array itself, so it never differs.)
ObservedSnapshotCatchesUp ==
  pending = <<>> =>
    /\ value = At(history, pointer)
    /\ renderedPointer = pointer

\* C12: set(f) with f a function commits f(log[cursor]), the entry at the
\* cursor at the moment of the call, whatever calls preceded it.
TransformReadsCurrent ==
  (last.op = "set" /\ last.input.kind = "fn") =>
    last.arg = ApplyFn(last.input, At(last.history, last.pointer))

\* The log holding the numbers of a.
Nums(a) == [i \in DOMAIN a |-> Prim(a[i])]

\* The last call was name, made on the log of numbers a at cursor k.
CalledOn(name, a, k) ==
  /\ last.op = name
  /\ last.history = Nums(a)
  /\ last.pointer = k

\* C13: create(0, capacity 3), commit 1, 2, 3 gives log [1,2,3], cursor 2;
\* back() gives current 2, cursor 1; commit(9) gives log [1,9], cursor 1;
\* forward() then changes nothing.  Each step starts in the state the step
\* before it ends in.
EndToEndScenario ==
  /\ last.op = "create" => (history = Nums(<<0>>) /\ pointer = 0)
  /\ (CalledOn("set", <<0>>, 0) /\ last.arg = Prim(1)) =>
       (history = Nums(<<0, 1>>) /\ pointer = 1)
  /\ (CalledOn("set", <<0, 1>>, 1) /\ last.arg = Prim(2)) =>
       (history = Nums(<<0, 1, 2>>) /\ pointer = 2)
  /\ (CalledOn("set", <<0, 1, 2>>, 2) /\ last.arg = Prim(3)) =>
       (history = Nums(<<1, 2, 3>>) /\ pointer = 2)
  /\ CalledOn("back", <<1, 2, 3>>, 2) =>
       /\ history = Nums(<<1, 2, 3>>)
       /\ pointer = 1
       /\ StateValue(pending, value) = Prim(2)
  /\ (CalledOn("set", <<1, 2, 3>>, 1) /\ last.arg = Prim(9)) =>
       (history = Nums(<<1, 9>>) /\ pointer = 1)
  /\ CalledOn("forward", <<1, 9>>, 1) =>
       /\ history = Nums(<<1, 9>>)
       /\ pointer = 1
       /\ value = last.value
       /\ pending = last.pending

\* C13, amended: as above, except that commit(9) at cursor 1 of [1,2,3]
\* keeps the entry at the cursor and gives log [1,2,9], cursor 2; forward()
\* then changes nothing.
EndToEndScenarioAmended ==
  /\ last.op = "create" => (history = Nums(<<0>>) /\ pointer = 0)
  /\ (CalledOn("set", <<0>>, 0) /\ last.arg = Prim(1)) =>
       (history = Nums(<<0, 1>>) /\ pointer = 1)
  /\ (CalledOn("set", <<0, 1>>, 1) /\ last.arg = Prim(2)) =>
       (history = Nums(<<0, 1, 2>>) /\ pointer = 2)
  /\ (CalledOn("set", <<0, 1, 2>>, 2) /\ last.arg = Prim(3)) =>
       (history = Nums(<<1, 2, 3>>) /\ pointer = 2)
  /\ CalledOn("back", <<1, 2, 3>>, 2) =>
       /\ history = Nums(<<1, 2, 3>>)
       /\ pointer = 1
       /\ StateValue(pending, value) = Prim(2)
  /\ (CalledOn("set", <<1, 2, 3>>, 1) /\ last.arg = Prim(9)) =>
       (history = Nums(<<1, 2, 9>>) /\ pointer = 2)
  /\ CalledOn("forward", <<1, 2, 9>>, 2) =>
       /\ history = Nums(<<1, 2, 9>>)
       /\ pointer = 2
       /\ value = last.value
       /\ pending = last.pending

\* The scenario was played to its end: forward() on log [1,2,9] at cursor 2,
\* with the 9 rendered.
EndToEndWitness ==
  /\ CalledOn("forward", <<1, 2, 9>>, 2)
  /\ capacity = 3
  /\ value = Prim(9)
  /\ pending = <<>>

\* C14: a sequence of back()/forward() calls that brings the cursor back to
\* the index it started from leaves the current value what it was.
RoundTrip ==
  (last.origin # <<>> /\ pointer = last.origin[1].pointer) =>
    StateValue(pending, value) = last.origin[1].current

\* forward() brought the cursor back to where the run of calls started.
RoundTripWitness ==
  /\ last.op = "forward"
  /\ last.origin # <<>>
  /\ last.pointer # pointer
  /\ pointer = last.origin[1].pointer

\* C15: back() at cursor 0, forward() at the last index, go outside the log
\* and a commit of the value already at the cursor schedule no state update,
\* so no re-render of the consumer comes from them.
NoOpCallsDoNotNotify ==
  (\/ last.op = "back" /\ last.pointer = 0
   \/ last.op = "forward" /\ last.pointer = Len(last.history) - 1
   \/ /\ last.op = "go"
      /\ (last.arg.id < 0 \/ last.arg.id > Len(last.history) - 1)
   \/ /\ last.op = "set"
      /\ StrictEq(last.arg, At(last.history, last.pointer))) =>
    /\ pending = last.pending
    /\ value = last.value

\* forward() was called at the last index with nothing scheduled.
NoOpCallsWitness ==
  /\ last.op = "forward"
  /\ last.pointer = Len(last.history) - 1
  /\ Len(last.history) >= 2
  /\ last.pending = <<>>
  /\ pending = <<>>

\* C16: a new container has log [initialValue] and cursor 0; without a
\* capacity option the capacity is 10, so a commit evicts exactly when the
\* log already holds 10 entries and the cursor is on the last of them.
DefaultConstruction ==
  /\ capacity = 10
  /\ last.op = "create" =>
       (history = <<last.arg>> /\ pointer = 0 /\ value = last.arg)
  /\ CommittedNew =>
       (Len(history) < Len(Pushed)
          <=> (Len(last.history) = 10 /\ last.pointer = 9))

\* A commit on a default container holding 10 entries evicted the oldest.
DefaultConstructionWitness ==
  /\ CommittedNew
  /\ Len(last.history) = 10
  /\ last.pointer = 9
  /\ history = Append(Tail(last.history), last.arg)

\* The committed value is already in the log, at an index other than the
\* cursor.
OccursElsewhere ==
  \E i \in 0 .. Len(last.history) - 1 :
    i # last.pointer /\ StrictEq(At(last.history, i), last.arg)

\* C17: a commit of a value that differs from the entry at the cursor always
\* appends, also when the value is already in the log at another index.
LocalDuplicateSuppression ==
  CommittedNew =>
    /\ IsSuffix(history, Pushed)
    /\ Len(history) = (IF Len(Pushed) <= capacity THEN Len(Pushed) ELSE capacity)
    /\ OccursElsewhere =>
         /\ history # <<>>
         /\ history[Len(history)] = last.arg
         /\ pointer = Len(history) - 1

\* A value was committed again and the log now holds it twice.
LocalDuplicateWitness ==
  /\ CommittedNew
  /\ OccursElsewhere
  /\ \E i \in 0 .. Len(history) - 2 : At(history, i) = last.arg
  /\ At(history, Len(history) - 1) = last.arg

\* C18: back(), forward() and go(i) never change the log; only a commit does.
NavigationKeepsLog == last.op # "set" => history = last.history

\* back() moved the cursor.
NavigationKeepsLogWitness ==
  /\ last.op = "back"
  /\ last.pointer >= 1
  /\ pointer = last.pointer - 1
  /\ Len(history) >= 2

CommitLengthLaw ==
  (capacity >= 1 /\ CommittedNew) =>
    /\ Len(history) =
         (IF last.pointer + 2 <= capacity THEN last.pointer + 2 ELSE capacity)
    /\ Len(Pushed) - Len(history) \in {0, 1}

\* A commit made after navigating back left a log shorter than the capacity.
CommitLengthWitness ==
  /\ capacity >= 1
  /\ CommittedNew
  /\ Len(last.history) = capacity
  /\ last.pointer + 2 < capacity
  /\ Len(history) = last.pointer + 2

====
